---- MODULE Spec2Model ----
(***************************************************************************)
(* Duplicate & conflict detection engine of the Ndola land registry:       *)
(* detect_all_duplicates and resolve_duplicate (duplicate_detector.py) and *)
(* detect_conflicts_from_documents (ai_conflict_enhanced.py), run against  *)
(* one SQLAlchemy session over a transactional datastore.                  *)
(*                                                                         *)
(* Text is a sequence of one-character strings, so that lower(), strip()   *)
(* and SQL LIKE '%x%' (Column.contains) are computed, not assumed.         *)
(* Confidence scores are integers in hundredths (0.95 is 95).              *)
(* A description is the concatenation of the interpolated fields, the      *)
(* fixed template text between two fields being the one token Sep; the     *)
(* fields land_location, submitted_at, original_filename, parcel location, *)
(* size and certificate are not part of the model.                         *)
(***************************************************************************)
EXTENDS Integers, Sequences, FiniteSets, TLC

VARIABLES
    nrc_number,     \* application id -> national-ID text (NULL when absent)
    tpin_number,    \* application id -> tax-ID text (NULL when absent)
    applicant_name, \* application id -> applicant name text
    status,         \* application id -> committed lifecycle status
    score,          \* application id -> committed ai_duplicate_score (hundredths)
    conflicts,      \* committed LandConflict rows, in id order
    pending,        \* LandConflict objects added to the session, not committed
    audit,          \* committed AuditLog rows
    last,           \* the most recent call: operation, argument, result
    nOps,           \* number of calls made so far
    nFail,          \* number of calls in which the datastore raised
    runs,           \* worker -> the detect_all_duplicates run it has in progress
    data            \* the rows generate_training_set has built so far

vars == <<nrc_number, tpin_number, applicant_name, status, score,
          conflicts, pending, audit, last, nOps, nFail, runs, data>>

----------------------------------------------------------------------------
(* Bounds of the model *)

\* calls made in one behaviour
MaxOps == 3
\* calls of one behaviour in which the datastore raises at some statement
MaxFailures == 1

----------------------------------------------------------------------------
(* Text *)

NULL == <<>>
Sep == "|"

\* the test that takes an absent text for a present one
Truthy_Always(s) == TRUE

\* the truth value of a text column: None and the empty text are false
Truthy(s) == s # NULL

Range(s) == {s[i] : i \in 1..Len(s)}

\* str.lower()
LowerChar(c) == IF c = "A" THEN "a" ELSE IF c = "B" THEN "b" ELSE c
Lower(s) == [i \in 1..Len(s) |-> LowerChar(s[i])]

\* str.strip()
RECURSIVE LStrip(_)
LStrip(s) == IF s # <<>> /\ Head(s) = " " THEN LStrip(Tail(s)) ELSE s
RECURSIVE RStrip(_)
RStrip(s) == IF s # <<>> /\ s[Len(s)] = " " THEN RStrip(SubSeq(s, 1, Len(s) - 1)) ELSE s
Strip(s) == RStrip(LStrip(s))

\* Column.contains(x): LIKE '%' || x || '%'
Contains(text, x) ==
    \E i \in 0..(Len(text) - Len(x)) : SubSeq(text, i + 1, i + Len(x)) = x

----------------------------------------------------------------------------
(* The datastore's rows that this core only reads *)

AppIds == {1, 2, 3}
\* the ids a caller may pass: the applications and one id that has no row
AppArgs == AppIds \cup {9}

\* reference_number of each application; "R1" occurs inside "R12"
reference_number(a) ==
    IF a = 1 THEN <<"R", "1">> ELSE IF a = 2 THEN <<"R", "1", "2">> ELSE <<"R", "3">>

N7 == <<"7">>
N8 == <<"8">>
T5 == <<"5">>

TitleDeed == <<"T">>
IdCard == <<"N">>

\* Document rows: owning application, content hash (0: none), type, length of
\* the extracted text and the text itself (tv: equal numbers, equal texts)
Docs == <<
    [application_id |-> 1, file_hash |-> 1, document_type |-> TitleDeed, len |-> 60, tv |-> 1],
    [application_id |-> 2, file_hash |-> 1, document_type |-> TitleDeed, len |-> 60, tv |-> 1],
    [application_id |-> 3, file_hash |-> 1, document_type |-> TitleDeed, len |-> 60, tv |-> 1],
    [application_id |-> 1, file_hash |-> 0, document_type |-> IdCard, len |-> 10, tv |-> 2],
    [application_id |-> 2, file_hash |-> 2, document_type |-> TitleDeed, len |-> 51, tv |-> 3],
    [application_id |-> 3, file_hash |-> 0, document_type |-> TitleDeed, len |-> 50, tv |-> 4] >>
DocIds == 1..Len(Docs)

\* LandParcel rows: owner_nrc, back-link to the application (0: none)
Parcels == <<
    [owner_nrc |-> N7, application_id |-> 1, parcel_number |-> <<"P", "1">>, owner_name |-> <<"a">>],
    [owner_nrc |-> N7, application_id |-> 0, parcel_number |-> <<"P", "2">>, owner_name |-> <<"b">>] >>
ParcelIds == 1..Len(Parcels)

Statuses == {"pending", "conflict", "approved", "rejected"}

\* every order in which an unordered query may return the applications
Orders == {o \in [1..3 -> AppIds] : \A a \in AppIds : \E i \in 1..3 : o[i] = a}

----------------------------------------------------------------------------
(* LandConflict objects.  cp is not a column: it names the counterpart the  *)
(* conflict was built for (application, target document, matching document, *)
(* parcel; 0 where there is none), by is the operation that built it and at *)
(* the time at which it was built.                                          *)

\* datetime.utcnow() read during the call being made: one tick per call
utcnow == nOps + 1

Counterpart(app, doc, dup, parcel) == [app |-> app, doc |-> doc, dup |-> dup, parcel |-> parcel]

\* an f-string field: a NULL column is interpolated as the text None
Str(x) == IF x = NULL THEN <<"None">> ELSE x

\* duplicate_detector.py:105-117
IdentityAppDescription(a, d) ==
    <<Sep>> \o Str(nrc_number[a]) \o <<Sep>> \o reference_number(d) \o <<Sep>>
        \o applicant_name[d] \o <<Sep>>

\* the conflict built with the confidence of a certain match
IdentityAppConflict_Certain(a, d) ==
    [application_id |-> a, conflicting_parcel_id |-> 0,
     description |-> IdentityAppDescription(a, d),
     conflict_type |-> "identity_duplicate", severity |-> "high",
     confidence_score |-> 100, status |-> "unresolved", resolved_at |-> 0,
     cp |-> Counterpart(d, 0, 0, 0), by |-> "detect_all_duplicates", at |-> utcnow]

IdentityAppConflict(a, d) ==
    [application_id |-> a, conflicting_parcel_id |-> 0,
     description |-> IdentityAppDescription(a, d),
     conflict_type |-> "identity_duplicate", severity |-> "high",
     confidence_score |-> 95, status |-> "unresolved", resolved_at |-> 0,
     cp |-> Counterpart(d, 0, 0, 0), by |-> "detect_all_duplicates", at |-> utcnow]

\* duplicate_detector.py:150-163
IdentityParcelDescription(a, p) ==
    <<Sep>> \o Str(nrc_number[a]) \o <<Sep>> \o Parcels[p].parcel_number \o <<Sep>>
        \o Parcels[p].owner_name \o <<Sep>>

IdentityParcelConflict(a, p) ==
    [application_id |-> a, conflicting_parcel_id |-> p,
     description |-> IdentityParcelDescription(a, p),
     conflict_type |-> "identity_duplicate", severity |-> "high",
     confidence_score |-> 95, status |-> "unresolved", resolved_at |-> 0,
     cp |-> Counterpart(0, 0, 0, p), by |-> "detect_all_duplicates", at |-> utcnow]

\* duplicate_detector.py:206-207
name_matches(a, b) == Strip(Lower(applicant_name[a])) = Strip(Lower(applicant_name[b]))

\* duplicate_detector.py:209-216
severity_level(a, b) == IF name_matches(a, b) THEN "medium" ELSE "high"

\* duplicate_detector.py:244
HashMatchConfidence == 98

\* duplicate_detector.py:221-239
DocumentDescription(a, doc, dup) ==
    LET b == Docs[dup].application_id IN
    <<Sep>> \o Docs[doc].document_type \o <<Sep>> \o applicant_name[a] \o <<Sep>>
        \o Str(nrc_number[a]) \o <<Sep>> \o Docs[doc].document_type \o <<Sep>>
        \o reference_number(b) \o <<Sep>> \o applicant_name[b] \o <<Sep>>
        \o Str(nrc_number[b]) \o <<Sep>> \o Docs[dup].document_type \o <<Sep>>

\* the conflict written on the counterpart application
DocumentConflict_OwnedByCounterpart(a, doc, dup) ==
    [application_id |-> Docs[dup].application_id, conflicting_parcel_id |-> 0,
     description |-> DocumentDescription(a, doc, dup),
     conflict_type |-> "document_duplicate",
     severity |-> severity_level(a, Docs[dup].application_id),
     confidence_score |-> HashMatchConfidence, status |-> "unresolved", resolved_at |-> 0,
     cp |-> Counterpart(Docs[dup].application_id, doc, dup, 0),
     by |-> "detect_all_duplicates", at |-> utcnow]

DocumentConflict(a, doc, dup) ==
    [application_id |-> a, conflicting_parcel_id |-> 0,
     description |-> DocumentDescription(a, doc, dup),
     conflict_type |-> "document_duplicate",
     severity |-> severity_level(a, Docs[dup].application_id),
     confidence_score |-> HashMatchConfidence, status |-> "unresolved", resolved_at |-> 0,
     cp |-> Counterpart(Docs[dup].application_id, doc, dup, 0),
     by |-> "detect_all_duplicates", at |-> utcnow]

----------------------------------------------------------------------------
(* detect_all_duplicates (duplicate_detector.py:52-287)                     *)
(* A query sees the committed rows and, by autoflush, the objects already   *)
(* added to the session: conflicts \o pending \o the run's own additions.   *)

\* the import list with LandParcel in it
ImportedModels_WithLandParcel ==
    {"db", "LandApplication", "Document", "LandConflict", "AuditLog", "LandParcel"}

\* line 12: the names the module imports from models; LandParcel is not one
ImportedModels == {"db", "LandApplication", "Document", "LandConflict", "AuditLog"}

\* the filter without its status condition
IdentityDupsFilter_AnyStatus(a, d) ==
    /\ (nrc_number[d] = nrc_number[a] \/ tpin_number[d] = tpin_number[a])
    /\ d # a

\* lines 83-90: other non-rejected applications with the same NRC or TPIN
\* (column == None is rendered IS NULL, so a NULL TPIN matches NULL TPINs)
IdentityDupsFilter(a, d) ==
    /\ (nrc_number[d] = nrc_number[a] \/ tpin_number[d] = tpin_number[a])
    /\ d # a
    /\ status[d] # "rejected"

identity_dups(a, ord) == SelectSeq(ord, LAMBDA d : IdentityDupsFilter(a, d))

\* lines 94-99
ExistingIdentityApp(a, d, visible) ==
    \E i \in 1..Len(visible) :
        /\ visible[i].application_id = a
        /\ visible[i].conflict_type = "identity_duplicate"
        /\ Contains(visible[i].description, reference_number(d))

\* lines 92-127: the loop over identity_dups; returns the run's created list
RECURSIVE IdentityAppLoop(_, _, _, _)
IdentityAppLoop(a, dups, visible, created) ==
    IF dups = <<>> THEN created
    ELSE IF ExistingIdentityApp(a, Head(dups), visible \o created)
         THEN IdentityAppLoop(a, Tail(dups), visible, created)
         ELSE IdentityAppLoop(a, Tail(dups), visible,
                              Append(created, IdentityAppConflict(a, Head(dups))))

\* lines 130-132
identity_parcels(a) ==
    SelectSeq([i \in ParcelIds |-> i], LAMBDA p : Parcels[p].owner_nrc = nrc_number[a])

\* line 136: the parcels the loop skips (continue)
ParcelSkipped(a, p) ==
    Parcels[p].application_id # 0 /\ Parcels[p].application_id # a

\* lines 140-144
ExistingIdentityParcel(a, p, visible) ==
    \E i \in 1..Len(visible) :
        /\ visible[i].application_id = a
        /\ visible[i].conflicting_parcel_id = p
        /\ visible[i].conflict_type = "identity_duplicate"

\* lines 134-173
RECURSIVE IdentityParcelLoop(_, _, _, _)
IdentityParcelLoop(a, parcels, visible, created) ==
    IF parcels = <<>> THEN created
    ELSE IF ParcelSkipped(a, Head(parcels))
            \/ ExistingIdentityParcel(a, Head(parcels), visible \o created)
         THEN IdentityParcelLoop(a, Tail(parcels), visible, created)
         ELSE IdentityParcelLoop(a, Tail(parcels), visible,
                                 Append(created, IdentityParcelConflict(a, Head(parcels))))

\* line 176
app_docs(a) == SelectSeq([i \in DocIds |-> i], LAMBDA d : Docs[d].application_id = a)

\* the Document rows in the order an unordered query returns them: by the
\* order of their applications, then by id
RECURSIVE DocsInOrder(_)
DocsInOrder(ord) ==
    IF ord = <<>> THEN <<>> ELSE app_docs(Head(ord)) \o DocsInOrder(Tail(ord))

\* lines 185-188
dup_docs(a, doc, ord) ==
    SelectSeq(DocsInOrder(ord),
              LAMBDA d : Docs[d].file_hash = Docs[doc].file_hash
                         /\ Docs[d].application_id # a)

\* the check that finds unresolved conflicts only
ExistingDocument_UnresolvedOnly(a, doc, dup, visible) ==
    \E i \in 1..Len(visible) :
        /\ visible[i].application_id = a
        /\ visible[i].conflict_type = "document_duplicate"
        /\ visible[i].status = "unresolved"
        /\ Contains(visible[i].description, reference_number(Docs[dup].application_id))
        /\ Contains(visible[i].description, Docs[doc].document_type)

\* the check that never finds an existing conflict
ExistingDocument_Never(a, doc, dup, visible) == FALSE

\* lines 196-202
ExistingDocument(a, doc, dup, visible) ==
    \E i \in 1..Len(visible) :
        /\ visible[i].application_id = a
        /\ visible[i].conflict_type = "document_duplicate"
        /\ Contains(visible[i].description, reference_number(Docs[dup].application_id))
        /\ Contains(visible[i].description, Docs[doc].document_type)

\* lines 192-250: the inner loop; stops at the first conflict it creates
RECURSIVE DupDocLoop(_, _, _, _, _)
DupDocLoop(a, doc, dups, visible, created) ==
    IF dups = <<>> THEN created
    ELSE IF ExistingDocument(a, doc, Head(dups), visible \o created)
         THEN DupDocLoop(a, doc, Tail(dups), visible, created)
         ELSE Append(created, DocumentConflict(a, doc, Head(dups)))

\* lines 179-250: the loop over the application's documents
RECURSIVE DocumentLoop(_, _, _, _, _)
DocumentLoop(a, docs, ord, visible, created) ==
    IF docs = <<>> THEN created
    ELSE IF Docs[Head(docs)].file_hash = 0
         THEN DocumentLoop(a, Tail(docs), ord, visible, created)
         ELSE DocumentLoop(a, Tail(docs), ord, visible,
                  DupDocLoop(a, Head(docs), dup_docs(a, Head(docs), ord), visible, created))

\* line 256
RECURSIVE max_confidence(_)
max_confidence(created) ==
    IF Len(created) = 1 THEN created[1].confidence_score
    ELSE LET m == max_confidence(Tail(created)) IN
         IF created[1].confidence_score > m THEN created[1].confidence_score ELSE m

\* the aggregation without its else branch: the score is left as it was
NewScore_NoReset(a, created) ==
    IF created # <<>> THEN max_confidence(created) ELSE score[a]

\* lines 255-261
NewScore(a, created) == IF created # <<>> THEN max_confidence(created) ELSE 0

NewStatus(a, created) ==
    IF created # <<>> /\ status[a] = "pending" THEN "conflict" ELSE status[a]

\* The run up to its commit: the created list, how far it got, and whether it
\* raised.  fail names the statement at which the datastore raises, if any.
DetectAllFailures == {"none", "get", "documents", "commit", "audit"}

\* the outcome that goes on to the commit and the audit entry
NotFound_FallsThrough ==
    [created |-> <<>>, raised |-> FALSE,
     stages |-> <<"identity", "documents", "commit", "audit">>]

\* lines 74-76: the application is not found; return created_conflicts
NotFound == [created |-> <<>>, raised |-> FALSE, stages |-> <<"not_found">>]

detect_all_run(a, fail, ord) ==
    LET visible == conflicts \o pending
        afterA == IF Truthy(nrc_number[a])
                  THEN IdentityAppLoop(a, identity_dups(a, ord), visible, <<>>)
                  ELSE <<>>
        afterB == IF Truthy(nrc_number[a])
                  THEN IdentityParcelLoop(a, identity_parcels(a), visible, afterA)
                  ELSE <<>>
        afterDocs == DocumentLoop(a, app_docs(a), ord, visible, afterB)
    IN  IF fail = "get"
        THEN [created |-> <<>>, raised |-> TRUE, stages |-> <<>>]
        ELSE IF a \notin AppIds
        THEN NotFound
        ELSE IF Truthy(nrc_number[a]) /\ "LandParcel" \notin ImportedModels
        THEN [created |-> afterA, raised |-> TRUE, stages |-> <<>>]
        ELSE IF fail = "documents"
        THEN [created |-> afterB, raised |-> TRUE, stages |-> <<"identity">>]
        ELSE IF fail = "commit"
        THEN [created |-> afterDocs, raised |-> TRUE,
              stages |-> <<"identity", "documents">>]
        ELSE IF fail = "audit"
        THEN [created |-> afterDocs, raised |-> FALSE,
              stages |-> <<"identity", "documents", "commit">>]
        ELSE [created |-> afterDocs, raised |-> FALSE,
              stages |-> <<"identity", "documents", "commit", "audit">>]

Committed(run) == Len(run.stages) >= 3 /\ run.stages[3] = "commit"
Audited(run) == Len(run.stages) >= 4 /\ run.stages[4] = "audit"

\* line 76 / 282 / 287: what the call returns
detect_all_result(run) == run.created

\* one more call; fail # "none" is an injected datastore failure
Step(fail) ==
    /\ nOps < MaxOps
    /\ nOps' = nOps + 1
    /\ fail # "none" => nFail < MaxFailures
    /\ nFail' = IF fail # "none" THEN nFail + 1 ELSE nFail

Call(op, arg, fail, result, run, created) ==
    [op |-> op, arg |-> arg, fail |-> fail, result |-> result, raised |-> run.raised,
     stages |-> run.stages, created |-> created]

\* the entry that counts every conflict of the datastore, not the run's own
detect_audit_log_CountsAll(a, created) ==
    [action |-> "detect_duplicates", record_id |-> a,
     duplicates_found |-> Len(conflicts) + Len(created)]

\* lines 268-275: the AuditLog entry of a run
detect_audit_log(a, created) ==
    [action |-> "detect_duplicates", record_id |-> a, duplicates_found |-> Len(created)]

detect_all_duplicates(a, fail, ord) ==
    LET run == detect_all_run(a, fail, ord) IN
    /\ Step(fail)
    /\ last' = Call("detect_all_duplicates", a, fail, detect_all_result(run), run, run.created)
    /\ IF Committed(run)
       THEN /\ conflicts' = conflicts \o pending \o run.created
            /\ pending' = <<>>
            /\ score' = [score EXCEPT ![a] = NewScore(a, run.created)]
            /\ status' = [status EXCEPT ![a] = NewStatus(a, run.created)]
       ELSE /\ pending' = IF run.raised THEN <<>> ELSE pending
            /\ UNCHANGED <<conflicts, score, status>>
    /\ audit' = IF Audited(run)
                THEN Append(audit, detect_audit_log(a, run.created))
                ELSE audit
    /\ UNCHANGED <<nrc_number, tpin_number, applicant_name, runs, data>>

----------------------------------------------------------------------------
(* detect_conflicts_from_documents (ai_conflict_enhanced.py:15-129)         *)

\* lines 112-115; {score:.0%} is one token
DocConflictDescription(other, new_doc, reason) ==
    <<reason, Sep, "%", Sep>> \o reference_number(other) \o <<Sep>>
        \o applicant_name[other] \o <<Sep>> \o Docs[new_doc].document_type

\* lines 110-129: the conflict the helper adds to the session and to the list
create_doc_conflict(a, new_doc, old_doc, doc_score, reason) ==
    [application_id |-> a, conflicting_parcel_id |-> 0,
     description |-> DocConflictDescription(Docs[old_doc].application_id, new_doc, reason),
     conflict_type |-> "document_duplicate", severity |-> "high",
     confidence_score |-> doc_score, status |-> "unresolved", resolved_at |-> 0,
     cp |-> Counterpart(Docs[old_doc].application_id, new_doc, old_doc, 0),
     by |-> "detect_conflicts_from_documents", at |-> utcnow]

\* lines 29-32
exact_dups(a, new_doc) ==
    SelectSeq([i \in DocIds |-> i],
              LAMBDA d : Docs[d].file_hash = Docs[new_doc].file_hash
                         /\ Docs[d].application_id # a)

\* lines 34-40
RECURSIVE ExactDupLoop(_, _, _, _)
ExactDupLoop(a, new_doc, dups, created) ==
    IF dups = <<>> THEN created
    ELSE ExactDupLoop(a, new_doc, Tail(dups),
             Append(created, create_doc_conflict(a, new_doc, Head(dups), 100, "Exact")))

\* lines 24-40
RECURSIVE HashPass(_, _, _)
HashPass(a, docs, created) ==
    IF docs = <<>> THEN created
    ELSE IF Docs[Head(docs)].file_hash = 0
         THEN HashPass(a, Tail(docs), created)
         ELSE HashPass(a, Tail(docs),
                  ExactDupLoop(a, Head(docs), exact_dups(a, Head(docs)), created))

\* line 56
TextTypes == {TitleDeed}

\* line 68
CandidateLimit == 200

\* lines 64-68
candidates(a, new_doc) ==
    LET all == SelectSeq([i \in DocIds |-> i],
                   LAMBDA d : /\ Docs[d].document_type = Docs[new_doc].document_type
                              /\ Docs[d].application_id # a
                              /\ d # new_doc)
    IN  SubSeq(all, 1, IF Len(all) < CandidateLimit THEN Len(all) ELSE CandidateLimit)

\* lines 76-80
valid_candidates(a, new_doc) ==
    SelectSeq(candidates(a, new_doc), LAMBDA d : Docs[d].len > 50)

\* lines 86-87: cosine similarity of the TF-IDF vectors of two texts, in
\* hundredths; equal texts score 100, texts 3 and 4 score exactly 85
cosine_sim(x, y) ==
    IF Docs[x].tv = Docs[y].tv THEN 100
    ELSE IF {Docs[x].tv, Docs[y].tv} = {1, 3} THEN 86
    ELSE IF {Docs[x].tv, Docs[y].tv} = {1, 4} THEN 90
    ELSE 85

\* line 91: the threshold, in hundredths
SimilarityThreshold == 85

\* the test that also accepts a score equal to the threshold
above_threshold_Inclusive(s) == s >= SimilarityThreshold

\* line 91: if score > 0.85
above_threshold(s) == s > SimilarityThreshold

\* lines 90-98
RECURSIVE SimilarityLoop(_, _, _, _)
SimilarityLoop(a, new_doc, cands, created) ==
    IF cands = <<>> THEN created
    ELSE IF above_threshold(cosine_sim(new_doc, Head(cands)))
         THEN SimilarityLoop(a, new_doc, Tail(cands),
                  Append(created, create_doc_conflict(a, new_doc, Head(cands),
                             cosine_sim(new_doc, Head(cands)), "Similar")))
         ELSE SimilarityLoop(a, new_doc, Tail(cands), created)

\* lines 54-98
RECURSIVE ContentPass(_, _, _)
ContentPass(a, docs, created) ==
    IF docs = <<>> THEN created
    ELSE IF \/ Docs[Head(docs)].document_type \notin TextTypes
            \/ Docs[Head(docs)].len < 50
         THEN ContentPass(a, Tail(docs), created)
         ELSE ContentPass(a, Tail(docs),
                  SimilarityLoop(a, Head(docs), valid_candidates(a, Head(docs)), created))

\* fail: the statement that raises, if any ("text": the import of line 52,
\* after the hash pass and before the content pass)
DetectDocsFailures == {"none", "get", "text"}

detect_docs_run(a, fail) ==
    LET afterHash == HashPass(a, app_docs(a), <<>>)
        afterText == ContentPass(a, app_docs(a), afterHash)
    IN  IF fail = "get"
        THEN [created |-> <<>>, raised |-> TRUE, stages |-> <<>>]
        ELSE IF a \notin AppIds \/ app_docs(a) = <<>>
        THEN [created |-> <<>>, raised |-> FALSE, stages |-> <<"not_found">>]
        ELSE IF fail = "text"
        THEN [created |-> afterHash, raised |-> TRUE, stages |-> <<"hash">>]
        ELSE [created |-> afterText, raised |-> FALSE, stages |-> <<"hash", "text">>]

\* lines 20 / 104 / 108: what the call returns
detect_docs_result(run) == IF run.raised THEN <<>> ELSE run.created

\* lines 100-102: the status written before the commit
DocsNewStatus(a) == "conflict"

detect_conflicts_from_documents(a, fail) ==
    LET run == detect_docs_run(a, fail) IN
    /\ Step(fail)
    /\ last' = Call("detect_conflicts_from_documents", a, fail, detect_docs_result(run),
                    run, run.created)
    /\ IF ~run.raised /\ run.created # <<>>
       THEN /\ conflicts' = conflicts \o pending \o run.created
            /\ pending' = <<>>
            /\ status' = [status EXCEPT ![a] = DocsNewStatus(a)]
       ELSE \* no commit, and no rollback in the except clause (lines 106-108)
            /\ pending' = pending \o run.created
            /\ UNCHANGED <<conflicts, status>>
    /\ UNCHANGED <<score, audit, nrc_number, tpin_number, applicant_name, runs, data>>

----------------------------------------------------------------------------
(* resolve_duplicate (duplicate_detector.py:290-332)                        *)

\* the ids a caller may pass: the first two rows and one id that has no row
ConflictArgs == {1, 2, 99}

ResolveFailures == {"none", "get", "commit", "audit"}

\* line 302: db.session.get finds committed rows and flushed session objects
ConflictExists(cid) == cid \in 1..Len(conflicts \o pending)

\* the update that flips the status of a conflict already resolved
Resolved_Toggles(c, now) ==
    [c EXCEPT !.status = IF c.status = "resolved" THEN "unresolved" ELSE "resolved",
              !.resolved_at = now]

\* the update that leaves the resolution timestamp unset
Resolved_NoTimestamp(c, now) == [c EXCEPT !.status = "resolved"]

\* lines 306-307
Resolved(c, now) == [c EXCEPT !.status = "resolved", !.resolved_at = now]

\* the run in which a failed audit write reaches the outer except clause
resolve_run_AuditNotIsolated(cid, fail) ==
    IF fail = "get" THEN [raised |-> TRUE, stages |-> <<>>]
    ELSE IF ~ConflictExists(cid) THEN [raised |-> FALSE, stages |-> <<"not_found">>]
    ELSE IF fail = "commit" THEN [raised |-> TRUE, stages |-> <<"update">>]
    ELSE IF fail = "audit" THEN [raised |-> TRUE, stages |-> <<"update", "commit">>]
    ELSE [raised |-> FALSE, stages |-> <<"update", "commit", "audit">>]

resolve_run(cid, fail) ==
    IF fail = "get" THEN [raised |-> TRUE, stages |-> <<>>]
    ELSE IF ~ConflictExists(cid) THEN [raised |-> FALSE, stages |-> <<"not_found">>]
    ELSE IF fail = "commit" THEN [raised |-> TRUE, stages |-> <<"update">>]
    ELSE IF fail = "audit" THEN [raised |-> FALSE, stages |-> <<"update", "commit">>]
    ELSE [raised |-> FALSE, stages |-> <<"update", "commit", "audit">>]

\* the result that takes a failed update for a successful one
resolve_result_IgnoresFailure(run) == run.stages # <<>> /\ run.stages[1] = "update"

\* lines 304 / 327 / 332
resolve_result(run) == ~run.raised /\ Len(run.stages) >= 2

resolve_duplicate(cid, fail) ==
    LET run == resolve_run(cid, fail) IN
    /\ Step(fail)
    /\ last' = Call("resolve_duplicate", cid, fail, resolve_result(run), run, <<>>)
    /\ IF resolve_result(run)
       THEN /\ conflicts' = [conflicts \o pending EXCEPT
                                ![cid] = Resolved(@, utcnow)]
            /\ pending' = <<>>
       ELSE /\ pending' = IF run.raised THEN <<>> ELSE pending
            /\ UNCHANGED conflicts
    /\ audit' = IF Len(run.stages) = 3
                THEN Append(audit, [action |-> "resolve_duplicate", record_id |-> cid,
                                    duplicates_found |-> 0])
                ELSE audit
    /\ UNCHANGED <<status, score, nrc_number, tpin_number, applicant_name, runs, data>>

----------------------------------------------------------------------------
(* The datastore before the first call *)

\* the workers that serve requests, each with a session of its own
Workers == {1, 2}

\* a worker with no run in progress
Idle == [pc |-> "idle", op |-> "none", arg |-> 0, created |-> <<>>, seen |-> 0]

NoCall ==
    [op |-> "none", arg |-> 0, fail |-> "none", result |-> <<>>, raised |-> FALSE,
     stages |-> <<>>, created |-> <<>>]

Init ==
    /\ nrc_number \in {f \in [AppIds -> {NULL, N7, N8}] :
                          /\ f[1] \in {NULL, N7}
                          /\ f[2] \in {N7, N8}
                          /\ f[3] \in {NULL, N7}}
    /\ tpin_number \in {f \in [AppIds -> {NULL, T5}] : f[1] = T5 /\ f[2] = NULL}
    /\ applicant_name = [a \in AppIds |->
                             IF a = 1 THEN <<"a">>
                             ELSE IF a = 2 THEN <<" ", "A">> ELSE <<"b">>]
    /\ status \in {f \in [AppIds -> Statuses] :
                      /\ f[1] \in {"pending", "approved"}
                      /\ f[2] \in {"pending", "rejected"}
                      /\ f[3] = "pending"
                      /\ f[1] = "pending" \/ f[2] = "pending"}
    /\ score = [a \in AppIds |-> 0]
    /\ conflicts = <<>>
    /\ pending = <<>>
    /\ audit = <<>>
    /\ last = NoCall
    /\ nOps = 0
    /\ nFail = 0
    /\ runs = [w \in Workers |-> Idle]
    /\ data = <<>>

Next ==
    \/ \E a \in AppArgs, fail \in DetectAllFailures, ord \in Orders :
           detect_all_duplicates(a, fail, ord)
    \/ \E a \in AppArgs, fail \in DetectDocsFailures :
           detect_conflicts_from_documents(a, fail)
    \/ \E cid \in ConflictArgs, fail \in ResolveFailures :
           resolve_duplicate(cid, fail)

Spec == Init /\ [][Next]_vars

----------------------------------------------------------------------------
(* The detection runs of two workers at once.  Each worker has its own      *)
(* session: its queries see the committed rows only, and what it adds       *)
(* becomes visible to the other worker at its commit.  A run is two steps:  *)
(* its checks (up to line 250 of duplicate_detector.py, up to line 98 of    *)
(* ai_conflict_enhanced.py) against the rows committed by then, and its     *)
(* commit; no statement of the datastore raises.                            *)

\* lines 72-250: load the application, run the checks, queue the conflicts
run_checks(w, a, ord) ==
    LET run == detect_all_run(a, "none", ord) IN
    /\ runs[w].pc = "idle"
    /\ nOps < MaxOps
    /\ nOps' = nOps + 1
    /\ runs' = [runs EXCEPT ![w] =
                    [pc |-> IF run.raised THEN "raised" ELSE "queued",
                     op |-> "detect_all_duplicates",
                     arg |-> a, created |-> run.created, seen |-> Len(conflicts)]]
    /\ UNCHANGED <<nrc_number, tpin_number, applicant_name, status, score,
                   conflicts, pending, audit, last, nFail, data>>

\* lines 255-282: aggregate, commit, audit entry
run_commit(w) ==
    LET a == runs[w].arg
        created == runs[w].created IN
    /\ runs[w].pc = "queued" /\ runs[w].op = "detect_all_duplicates"
    /\ conflicts' = conflicts \o created
    /\ score' = [score EXCEPT ![a] = NewScore(a, created)]
    /\ status' = [status EXCEPT ![a] = NewStatus(a, created)]
    /\ audit' = Append(audit, detect_audit_log(a, created))
    /\ runs' = [runs EXCEPT ![w] = Idle]
    /\ UNCHANGED <<nrc_number, tpin_number, applicant_name, pending, last, nOps, nFail,
                   data>>

\* lines 284-287: the run raised (NameError of line 130); roll back
run_rollback(w) ==
    /\ runs[w].pc = "raised"
    /\ runs' = [runs EXCEPT ![w] = Idle]
    /\ UNCHANGED <<nrc_number, tpin_number, applicant_name, status, score,
                   conflicts, pending, audit, last, nOps, nFail, data>>

\* ai_conflict_enhanced.py:18-98 and 104: load the application, run both
\* passes, queue the conflicts; a run that queued none returns at once
docs_checks(w, a) ==
    LET run == detect_docs_run(a, "none") IN
    /\ runs[w].pc = "idle"
    /\ nOps < MaxOps
    /\ nOps' = nOps + 1
    /\ runs' = IF run.created = <<>> THEN runs
               ELSE [runs EXCEPT ![w] =
                        [pc |-> "queued", op |-> "detect_conflicts_from_documents",
                         arg |-> a, created |-> run.created, seen |-> Len(conflicts)]]
    /\ UNCHANGED <<nrc_number, tpin_number, applicant_name, status, score,
                   conflicts, pending, audit, last, nFail, data>>

\* ai_conflict_enhanced.py:100-104: status, commit
docs_commit(w) ==
    /\ runs[w].pc = "queued" /\ runs[w].op = "detect_conflicts_from_documents"
    /\ conflicts' = conflicts \o runs[w].created
    /\ status' = [status EXCEPT ![runs[w].arg] = DocsNewStatus(runs[w].arg)]
    /\ runs' = [runs EXCEPT ![w] = Idle]
    /\ UNCHANGED <<nrc_number, tpin_number, applicant_name, score, pending, audit,
                   last, nOps, nFail, data>>

ConcurrentNext ==
    \/ \E w \in Workers, a \in AppIds, ord \in Orders : run_checks(w, a, ord)
    \/ \E w \in Workers : run_commit(w)
    \/ \E w \in Workers : run_rollback(w)
    \/ \E w \in Workers, a \in AppIds : docs_checks(w, a)
    \/ \E w \in Workers : docs_commit(w)

ConcurrentSpec == Init /\ [][ConcurrentNext]_vars

----------------------------------------------------------------------------
(* generate_training_set (train_model.py:22-77).  One step builds one row.  *)
(* A row keeps the synthesized application and the features nrc_match and   *)
(* spatial_overlap; loc_score and name_score, the SequenceMatcher ratios of *)
(* the texts, are not part of the model.  Draws and overlaps are in         *)
(* hundredths.                                                              *)

\* rows built in one behaviour
MaxRows == 2

\* train_model.py:15
TRAINING_SIZE == 2000

\* line 53: the ID of the clean scenario
CleanNrc == "999999/99/1"

\* line 83: the LandParcel rows the trainer is given; the second has the
\* owner ID that line 53 writes, the third has none
TrainParcels == <<
    [owner_nrc |-> "111111/11/1", location |-> <<"Plot 1">>, owner_name |-> "Owner 1"],
    [owner_nrc |-> "999999/99/1", location |-> <<"Plot 2">>, owner_name |-> "Owner 2"],
    [owner_nrc |-> "None", location |-> <<"Plot 3">>, owner_name |-> "Owner 3"] >>

\* random.random(): values of [0.0, 1.0), 0.5 among them
RandomDraws == {0, 50, 51, 99}

\* random.uniform(0.1, 1.0): both ends can be returned
UniformDraws == {10, 55, 100}

\* lines 33-73: one iteration, with its four draws
training_row(t, r1, r2, r3, u) ==
    LET target == TrainParcels[t]
        conflict == r1 > 50
        app_nrc == IF conflict THEN target.owner_nrc ELSE CleanNrc
        app_location ==
            IF conflict
            THEN IF r2 > 50 THEN target.location \o <<" EXT">> ELSE target.location
            ELSE <<"Plot 99999, New Extension, Ndola">>
        app_name ==
            IF conflict
            THEN IF r3 > 50 THEN target.owner_name ELSE "Fraudulent Applicant"
            ELSE "New Citizen"
        label == IF conflict THEN 1 ELSE 0
    IN  [target |-> t, app_nrc |-> app_nrc, app_location |-> app_location,
         app_name |-> app_name,
         nrc_match |-> IF app_nrc = target.owner_nrc THEN 1 ELSE 0,
         spatial_overlap |-> IF label = 1 THEN u ELSE 0,
         label |-> label]

generate_training_set(t, r1, r2, r3, u) ==
    /\ Len(data) < TRAINING_SIZE
    /\ Len(data) < MaxRows
    /\ data' = Append(data, training_row(t, r1, r2, r3, u))
    /\ UNCHANGED <<nrc_number, tpin_number, applicant_name, status, score,
                   conflicts, pending, audit, last, nOps, nFail, runs>>

TrainerNext ==
    \E t \in 1..Len(TrainParcels), r1, r2, r3 \in RandomDraws, u \in UniformDraws :
        generate_training_set(t, r1, r2, r3, u)

TrainerSpec == Init /\ [][TrainerNext]_vars

----------------------------------------------------------------------------
(* Vocabulary of the properties *)

Rows == conflicts \o pending

\* the (application, conflict type, counterpart) of a conflict; for a
\* document conflict the counterpart is the other application and the
\* document type, as in the check of duplicate_detector.py:196-202
Triple(c) ==
    <<c.application_id, c.conflict_type, c.cp.app, c.cp.parcel,
      IF c.cp.doc = 0 THEN NULL ELSE Docs[c.cp.doc].document_type>>

IsCall(call, op) == call.op = op
DetectAll == "detect_all_duplicates"
DetectDocs == "detect_conflicts_from_documents"
ResolveDup == "resolve_duplicate"

\* the conflict records a call left in the datastore
Produced(call) == IF Committed(call) THEN call.created ELSE <<>>

\* C1: a second detect_all_duplicates run directly after a first one for the
\* same application, on unchanged data and with no datastore failure in
\* either run, leaves no more conflict records than the first did and none
\* for a (application, type, counterpart) that already has a conflict.
C1_SecondRunCreatesNoMore ==
    [][(/\ IsCall(last, DetectAll) /\ IsCall(last', DetectAll)
        /\ last.fail = "none" /\ last'.fail = "none"
        /\ nOps' = nOps + 1 /\ last'.arg = last.arg)
       => /\ Len(Produced(last')) <= Len(Produced(last))
          /\ \A i \in 1..Len(Produced(last')) : \A j \in 1..Len(Rows) :
                 Triple(Rows[j]) # Triple(Produced(last')[i])]_vars

\* two committed runs in a row for one application; the first created a
\* conflict, whose pair the second met again
C1_Witness ==
    /\ nOps = 2 /\ IsCall(last, DetectAll) /\ Len(audit) = 2
    /\ audit[1].action = "detect_duplicates" /\ audit[2].action = "detect_duplicates"
    /\ audit[1].record_id = audit[2].record_id
    /\ audit[1].duplicates_found = 1
    /\ \E j \in 1..Len(conflicts) : conflicts[j].application_id = last.arg

\* C2: at most one conflict record for each (application, conflict type,
\* matching counterpart), the counterpart taken as narrowly as the records
\* allow: the counterpart application, both documents, the parcel, and the
\* description written for the match.
C2_AtMostOnePerCounterpart ==
    \A i, j \in 1..Len(conflicts) :
        (/\ conflicts[i].application_id = conflicts[j].application_id
         /\ conflicts[i].conflict_type = conflicts[j].conflict_type
         /\ conflicts[i].cp = conflicts[j].cp
         /\ conflicts[i].description = conflicts[j].description) => i = j

\* C3: a detect_all_duplicates run in which a statement raised returns an
\* empty list.
C3_FailureReturnsEmpty ==
    (IsCall(last, DetectAll) /\ last.raised) => last.result = <<>>

\* an application in status conflict owns a committed conflict record (no
\* application starts in status conflict, so a detection run set it)
StatusConflictHasRecord ==
    \A a \in AppIds :
        status[a] = "conflict" =>
            \E i \in 1..Len(conflicts) : conflicts[i].application_id = a

\* C4: the conflict inserts and the status change of one detection run become
\* visible together or not at all: an application in status conflict owns a
\* committed conflict record, and a committed conflict record is never owned
\* by an application that the run building it would have moved out of pending.
C4_RunWritesVisibleTogether ==
    /\ StatusConflictHasRecord
    /\ \A i \in 1..Len(conflicts) : status[conflicts[i].application_id] # "pending"

\* every conflict object the model holds: committed, in the session, or in
\* the list the last call built
AllConflicts == Range(conflicts) \cup Range(pending) \cup Range(last.created)

\* C5: a healthy detect_all_duplicates run for an application with a
\* national-ID passes identity checks, document checks, commit and audit in
\* that order and leaves a committed identity_duplicate conflict for every
\* parcel owned by that national-ID and not linked to the application.
C5_ParcelConflictPersisted ==
    (/\ IsCall(last, DetectAll) /\ last.fail = "none"
     /\ last.arg \in AppIds /\ Truthy(nrc_number[last.arg]))
    => \A p \in ParcelIds :
           (/\ Parcels[p].owner_nrc = nrc_number[last.arg]
            /\ Parcels[p].application_id # last.arg)
           => /\ last.stages = <<"identity", "documents", "commit", "audit">>
              /\ \E i \in 1..Len(conflicts) :
                     /\ conflicts[i].application_id = last.arg
                     /\ conflicts[i].conflict_type = "identity_duplicate"
                     /\ conflicts[i].conflicting_parcel_id = p

C7_NoRejectedNoSelf ==
    IsCall(last, DetectAll)
    => \A i \in 1..Len(last.created) :
           LET c == last.created[i] IN
           (c.conflict_type = "identity_duplicate" /\ c.cp.app # 0)
           => (c.cp.app # last.arg /\ status[c.cp.app] # "rejected")

\* a run for an application whose national-ID is also that of a rejected
\* application, and which did build an identity conflict against a third
C7_Witness ==
    /\ IsCall(last, DetectAll) /\ last.arg \in AppIds
    /\ \E d \in AppIds :
           /\ d # last.arg /\ status[d] = "rejected"
           /\ Truthy(nrc_number[d]) /\ nrc_number[d] = nrc_number[last.arg]
    /\ \E i \in 1..Len(last.created) :
           last.created[i].conflict_type = "identity_duplicate"

\* the confidences of a list of conflicts
Confidences(cs) == {cs[i].confidence_score : i \in 1..Len(cs)}

\* C8: after a committed detect_all_duplicates run the application's score is
\* the greatest confidence among the conflicts the run created, 0 if none.
C8_ScoreIsMaxOfRun ==
    (IsCall(last, DetectAll) /\ Committed(last))
    => IF last.created = <<>> THEN score[last.arg] = 0
       ELSE /\ score[last.arg] \in Confidences(last.created)
            /\ \A x \in Confidences(last.created) : x <= score[last.arg]

\* a committed run that created nothing, for an application whose earlier run
\* created a conflict
C8_Witness ==
    /\ IsCall(last, DetectAll) /\ Committed(last) /\ last.created = <<>>
    /\ \E i \in 1..Len(conflicts) :
           /\ conflicts[i].application_id = last.arg
           /\ conflicts[i].by = "detect_all_duplicates"

\* C9: a status changes only from pending to conflict, and only for the
\* application of a detection run that created a conflict.
C9_OnlyPendingBecomesConflict ==
    [][\A a \in AppIds :
           status'[a] # status[a]
           => /\ status[a] = "pending" /\ status'[a] = "conflict"
              /\ last'.arg = a /\ last'.created # <<>>]_vars

\* a conflict built by the hash pass of either entry point
FromHashPass(c) ==
    /\ c.conflict_type = "document_duplicate"
    /\ \/ c.by = "detect_all_duplicates"
       \/ c.by = "detect_conflicts_from_documents" /\ c.description[1] = "Exact"

\* C10: a hash-pass conflict has confidence 1.0, severity medium when the two
\* applicant names are equal after lowercasing and trimming, high otherwise.
C10_HashMatchConfidenceSeverity ==
    \A c \in AllConflicts :
        FromHashPass(c)
        => /\ c.confidence_score = 100
           /\ c.severity =
                  IF Strip(Lower(applicant_name[c.application_id]))
                         = Strip(Lower(applicant_name[c.cp.app]))
                  THEN "medium" ELSE "high"

\* a conflict built by the content-similarity pass
FromContentPass(c) ==
    /\ c.conflict_type = "document_duplicate"
    /\ c.by = "detect_conflicts_from_documents" /\ c.description[1] = "Similar"

\* the (target document, candidate) pairs the content pass of a run for
\* application a scores: text-heavy targets with a text, candidates of the
\* same type from other applications with a text
ScoredPairs(a) ==
    {<<x, y>> \in DocIds \X DocIds :
        /\ Docs[x].application_id = a /\ Docs[x].document_type \in TextTypes
        /\ Docs[x].len >= 50
        /\ Docs[y].application_id # a /\ Docs[y].document_type = Docs[x].document_type
        /\ Docs[y].len > 50}

\* C11: in the content-similarity pass a candidate scoring 0.85 or less never
\* yields a conflict, and every candidate scoring above 0.85 yields one whose
\* confidence is the computed score and whose severity is high.
C11_ThresholdBoundary ==
    /\ \A c \in AllConflicts :
           FromContentPass(c)
           => /\ cosine_sim(c.cp.doc, c.cp.dup) > 85
              /\ c.confidence_score = cosine_sim(c.cp.doc, c.cp.dup)
              /\ c.severity = "high"
    /\ (IsCall(last, DetectDocs) /\ last.stages = <<"hash", "text">>)
       => \A p \in ScoredPairs(last.arg) :
              cosine_sim(p[1], p[2]) > 85
              => \E i \in 1..Len(last.created) :
                     /\ FromContentPass(last.created[i])
                     /\ last.created[i].cp.doc = p[1]
                     /\ last.created[i].cp.dup = p[2]
                     /\ last.created[i].application_id = last.arg
                     /\ last.created[i].confidence_score = cosine_sim(p[1], p[2])

\* a completed run that scored one candidate at exactly 0.85 and another
\* above it, and built a conflict for the latter
C11_Witness ==
    /\ IsCall(last, DetectDocs) /\ last.stages = <<"hash", "text">>
    /\ \E p \in ScoredPairs(last.arg) : cosine_sim(p[1], p[2]) = 85
    /\ \E i \in 1..Len(last.created) :
           FromContentPass(last.created[i]) /\ last.created[i].confidence_score = 86

\* C12: resolve_duplicate on an existing unresolved conflict, the datastore
\* accepting the update, returns True, leaves the conflict resolved and its
\* resolution timestamp strictly after the time the conflict was built.
C12_ResolveStampsLater ==
    [][(/\ IsCall(last', ResolveDup) /\ nOps' = nOps + 1
        /\ last'.fail \in {"none", "audit"}
        /\ last'.arg \in 1..Len(Rows)
        /\ Rows[last'.arg].status = "unresolved")
       => /\ last'.result = TRUE
          /\ Len(conflicts') >= last'.arg
          /\ conflicts'[last'.arg].status = "resolved"
          /\ conflicts'[last'.arg].resolved_at > conflicts'[last'.arg].at
          /\ conflicts'[last'.arg].resolved_at > 0]_vars

\* a resolve_duplicate call that found its conflict and resolved it
C12_Witness ==
    /\ IsCall(last, ResolveDup) /\ last.fail = "none" /\ last.result = TRUE
    /\ last.arg \in 1..Len(conflicts)
    /\ conflicts[last.arg].status = "resolved"
    /\ conflicts[last.arg].resolved_at = nOps
    /\ conflicts[last.arg].at < nOps

\* everything the datastore holds
Datastore == <<conflicts, status, score, audit, nrc_number, tpin_number, applicant_name>>

\* C13: resolve_duplicate on a conflict id that has no row returns False and
\* writes nothing: no conflict, application or audit-log record is created or
\* changed; and a call in which the lookup or the update raises returns False
\* and leaves every committed conflict as it was, unresolved ones unresolved.
C13_NotFoundOrFailedWritesNothing ==
    [][(/\ IsCall(last', ResolveDup) /\ nOps' = nOps + 1
        /\ \/ last'.fail = "none" /\ last'.arg \notin 1..Len(Rows)
           \/ last'.raised)
       => /\ last'.result = FALSE
          /\ Datastore' = Datastore
          /\ last'.fail = "none" => pending' = pending]_vars

\* a resolve_duplicate call for an id that has no row, made while the
\* datastore holds a conflict
C13_Witness ==
    /\ IsCall(last, ResolveDup) /\ last.fail = "none" /\ last.arg = 99
    /\ last.result = FALSE /\ last.stages = <<"not_found">>
    /\ conflicts # <<>>

\* a resolve_duplicate call whose commit raised, for an unresolved conflict
C13_WitnessUpdateFails ==
    /\ IsCall(last, ResolveDup) /\ last.fail = "commit" /\ last.result = FALSE
    /\ last.arg \in 1..Len(conflicts) /\ conflicts[last.arg].status = "unresolved"

\* C14: detect_all_duplicates for an application id that has no row returns
\* an empty list and has no side effect: no conflict is inserted, no
\* application changed, no audit-log entry appended, and nothing is
\* committed (what the session holds stays uncommitted in the session).
C14_MissingApplicationNoEffect ==
    [][(/\ IsCall(last', DetectAll) /\ nOps' = nOps + 1
        /\ last'.fail = "none" /\ last'.arg \notin AppIds)
       => /\ last'.result = <<>>
          /\ Datastore' = Datastore
          /\ pending' = pending]_vars

\* a detect_all_duplicates call for an id that has no row, made while the
\* session holds a conflict that a commit would persist
C14_Witness ==
    /\ IsCall(last, DetectAll) /\ last.fail = "none" /\ last.arg \notin AppIds
    /\ last.stages = <<"not_found">>
    /\ pending # <<>>

\* C15: a detect_conflicts_from_documents run in which a statement raised
\* returns an empty list, and no conflict it queued is ever persisted: every
\* conflict record a call commits was built by that call, and that call did
\* not raise.
C15_FailedDocumentRunPersistsNothing ==
    [][/\ (IsCall(last', DetectDocs) /\ last'.raised /\ nOps' = nOps + 1)
          => last'.result = <<>>
       /\ \A i \in 1..Len(conflicts') :
              i > Len(conflicts)
              => /\ ~last'.raised
                 /\ \E j \in 1..Len(last'.created) : last'.created[j] = conflicts'[i]]_vars

\* C16: when the audit-log write fails after the primary commit, what the
\* commit wrote stays: detect_all_duplicates returns the conflicts it created,
\* all of them committed with the score and status change, and
\* resolve_duplicate returns True with the conflict resolved.
C16_AuditFailureKeepsPrimary ==
    /\ (IsCall(last, DetectAll) /\ last.fail = "audit" /\ Committed(last))
       => /\ last.result = last.created
          /\ \A i \in 1..Len(last.created) :
                 \E j \in 1..Len(conflicts) : conflicts[j] = last.created[i]
          /\ score[last.arg] =
                 IF last.created = <<>> THEN 0 ELSE max_confidence(last.created)
          /\ last.created # <<>> => status[last.arg] # "pending"
    /\ (IsCall(last, ResolveDup) /\ last.fail = "audit" /\ last.stages # <<"not_found">>)
       => /\ last.result = TRUE
          /\ last.arg \in 1..Len(conflicts)
          /\ conflicts[last.arg].status = "resolved"
          /\ conflicts[last.arg].resolved_at = nOps

\* a detect_all_duplicates run that committed a conflict and whose audit
\* write then failed
C16_Witness ==
    /\ IsCall(last, DetectAll) /\ last.fail = "audit" /\ Committed(last)
    /\ last.created # <<>> /\ ~Audited(last) /\ audit = <<>>
    /\ status[last.arg] = "conflict"

\* a resolve_duplicate call that committed and whose audit write then failed
C16_WitnessResolve ==
    /\ IsCall(last, ResolveDup) /\ last.fail = "audit" /\ last.result = TRUE
    /\ audit = <<>> /\ conflicts[last.arg].status = "resolved"

\* the audit log only grows, and by at most one entry in a step
AuditAppendOnly ==
    \/ audit' = audit
    \/ Len(audit') = Len(audit) + 1 /\ SubSeq(audit', 1, Len(audit)) = audit

\* the entry a detect_all_duplicates call is to leave
AuditEntryOf(call) ==
    [action |-> "detect_duplicates", record_id |-> call.arg,
     duplicates_found |-> Len(call.created)]

\* C17 as stated: every detect_all_duplicates run that reaches its commit
\* appends exactly one audit-log entry recording the number of conflicts the
\* run created, and audit-log entries are only ever appended.
C17_EveryCommittedRunAudited ==
    [][/\ AuditAppendOnly
       /\ (IsCall(last', DetectAll) /\ nOps' = nOps + 1 /\ Committed(last'))
          => audit' = Append(audit, AuditEntryOf(last'))]_vars

\* C17 amended: every detect_all_duplicates run that reaches its commit and
\* whose audit-log write does not fail appends exactly one audit-log entry,
\* after the commit, recording the number of conflicts the run created; a run
\* whose audit-log write fails, or that does not reach its commit, appends
\* none; audit-log entries are only ever appended.
C17_CommittedRunAuditedUnlessWriteFails ==
    [][/\ AuditAppendOnly
       /\ (IsCall(last', DetectAll) /\ nOps' = nOps + 1)
          => IF Committed(last') /\ last'.fail # "audit"
             THEN /\ audit' = Append(audit, AuditEntryOf(last'))
                  /\ last'.stages = <<"identity", "documents", "commit", "audit">>
                  /\ \A i \in 1..Len(last'.created) :
                         \E j \in 1..Len(conflicts') : conflicts'[j] = last'.created[i]
             ELSE audit' = audit]_vars

\* a second committed and audited run, after a first that created a conflict
\* and left its entry
C17_Witness ==
    /\ IsCall(last, DetectAll) /\ Committed(last) /\ Audited(last)
    /\ Len(audit) = 2 /\ conflicts # <<>>
    /\ audit[1].action = "detect_duplicates" /\ audit[1].duplicates_found = 1
    /\ audit[2] = AuditEntryOf(last)

\* two committed conflict records of detect_all_duplicates for one
\* (application, type, counterpart)
DoubleInsert(i, j) ==
    /\ i # j
    /\ conflicts[i].by = "detect_all_duplicates"
    /\ conflicts[j].by = "detect_all_duplicates"
    /\ Triple(conflicts[i]) = Triple(conflicts[j])

\* C18: under interleaving two runs can both pass the existence check and
\* both insert: a state with two conflict records for one (application,
\* type, counterpart) is reachable (C18_Witness), and it arises in this way
\* only: a detect_all_duplicates run commits a conflict for a counterpart
\* that already has one only if that record was committed after the run made
\* its checks.
C18_DoubleInsertOnlyByRace ==
    [][\A w \in Workers :
           (/\ runs[w].pc = "queued" /\ runs'[w].pc = "idle"
            /\ runs[w].op = "detect_all_duplicates")
           => \A i \in 1..Len(runs[w].created) : \A j \in 1..Len(conflicts) :
                  Triple(conflicts[j]) = Triple(runs[w].created[i])
                  => j > runs[w].seen]_vars

\* both workers have committed, and the datastore holds two conflict records
\* for one (application, type, counterpart)
C18_Witness ==
    /\ \A w \in Workers : runs[w].pc = "idle"
    /\ \E i, j \in 1..Len(conflicts) : DoubleInsert(i, j)

\* C19: a committed conflict record is never deleted; it changes only in a
\* resolve_duplicate call for its id, and then only in its status, set to
\* resolved, and its resolution timestamp; once resolved it stays resolved.
C19_ConflictOnlyResolved ==
    [][/\ Len(conflicts') >= Len(conflicts)
       /\ \A i \in 1..Len(conflicts) :
              /\ conflicts'[i] # conflicts[i]
                 => /\ IsCall(last', ResolveDup) /\ last'.arg = i
                    /\ conflicts'[i].status = "resolved"
                    /\ conflicts'[i].resolved_at > 0
                    /\ conflicts'[i] = [conflicts[i] EXCEPT
                                           !.status = "resolved",
                                           !.resolved_at = conflicts'[i].resolved_at]
              /\ conflicts[i].status = "resolved"
                 => conflicts'[i].status = "resolved"]_vars

\* a conflict resolved in an earlier call, still there and resolved after a
\* committed detection run for its application
C19_Witness ==
    /\ IsCall(last, DetectAll) /\ Committed(last)
    /\ \E i \in 1..Len(conflicts) :
           /\ conflicts[i].status = "resolved"
           /\ conflicts[i].application_id = last.arg

\* C20: every identity_duplicate conflict that detect_all_duplicates builds,
\* against an application or against a parcel, has confidence 0.95 and
\* severity high.
C20_IdentityConfidenceSeverity ==
    \A c \in AllConflicts :
        (c.conflict_type = "identity_duplicate" /\ c.by = "detect_all_duplicates")
        => c.confidence_score = 95 /\ c.severity = "high"

\* a run that built an identity_duplicate conflict against an application
C20_Witness ==
    /\ IsCall(last, DetectAll)
    /\ \E i \in 1..Len(last.created) :
           /\ last.created[i].conflict_type = "identity_duplicate"
           /\ last.created[i].cp.app \in AppIds
           /\ last.created[i].application_id = last.arg

\* C21: for each document of an application the hash pass of an entry point
\* leaves at most one document_duplicate conflict for that document,
\* however many documents of other applications have its hash and however
\* often detection is run again.
C21_OneHashConflictPerDocument ==
    \A i, j \in 1..Len(conflicts) :
        (/\ FromHashPass(conflicts[i]) /\ FromHashPass(conflicts[j])
         /\ conflicts[i].by = conflicts[j].by
         /\ conflicts[i].application_id = conflicts[j].application_id
         /\ conflicts[i].cp.doc = conflicts[j].cp.doc) => i = j

\* the same bound for the records of detect_all_duplicates alone
C21_OnePerDocumentDetectAll ==
    \A i, j \in 1..Len(conflicts) :
        (/\ FromHashPass(conflicts[i]) /\ FromHashPass(conflicts[j])
         /\ conflicts[i].by = "detect_all_duplicates"
         /\ conflicts[j].by = "detect_all_duplicates"
         /\ conflicts[i].application_id = conflicts[j].application_id
         /\ conflicts[i].cp.doc = conflicts[j].cp.doc) => i = j

\* C22: a text takes part in the content-similarity pass only if it is longer
\* than 50 characters: every conflict of that pass is for a target document
\* and a candidate whose texts are both longer than 50.
C22_TextsLongerThanFifty ==
    \A c \in AllConflicts :
        FromContentPass(c) => Docs[c.cp.doc].len > 50 /\ Docs[c.cp.dup].len > 50

\* the candidate half alone: no conflict of the content pass is for a
\* candidate whose text has 50 characters or fewer
C22_CandidatesLongerThanFifty ==
    \A c \in AllConflicts : FromContentPass(c) => Docs[c.cp.dup].len > 50

\* a document of application a has the hash of a document of another
\* application
HasHashDuplicate(a) ==
    \E x, y \in DocIds :
        /\ Docs[x].application_id = a /\ Docs[y].application_id # a
        /\ Docs[x].file_hash # 0 /\ Docs[x].file_hash = Docs[y].file_hash

\* C23: a detect_all_duplicates run for an application without a national-ID,
\* the datastore not failing, does not raise and builds no identity_duplicate
\* conflict; it goes through the document check, the aggregation, the commit
\* and the audit entry: a document with a duplicate hash has its conflict
\* committed, the score is that of the run and the entry is appended.
C23_NoNrcSkipsIdentityOnly ==
    (/\ IsCall(last, DetectAll) /\ last.fail = "none"
     /\ last.arg \in AppIds /\ nrc_number[last.arg] = NULL)
    => /\ ~last.raised
       /\ last.stages = <<"identity", "documents", "commit", "audit">>
       /\ \A i \in 1..Len(last.created) :
              last.created[i].conflict_type = "document_duplicate"
       /\ HasHashDuplicate(last.arg)
          => \E j \in 1..Len(conflicts) :
                 /\ conflicts[j].application_id = last.arg
                 /\ conflicts[j].conflict_type = "document_duplicate"
       /\ score[last.arg] = IF last.created = <<>> THEN 0 ELSE max_confidence(last.created)
       /\ audit # <<>> /\ audit[Len(audit)] = AuditEntryOf(last)

\* a run for an application that has a tax-ID equal to another
\* application's, no national-ID, and a document with a duplicate hash, for
\* which the run committed a conflict
C23_Witness ==
    /\ IsCall(last, DetectAll) /\ last.fail = "none" /\ last.arg \in AppIds
    /\ nrc_number[last.arg] = NULL
    /\ \E d \in AppIds : d # last.arg /\ tpin_number[d] = tpin_number[last.arg]
    /\ last.created # <<>> /\ Committed(last) /\ Audited(last)
    /\ status[last.arg] = "conflict"

\* C24: a detect_all_duplicates run that creates no conflict, the datastore
\* not failing, leaves the application's score at 0.0 and its status as it
\* was; an application can so be in status conflict, with unresolved
\* conflicts, and have score 0.0 (C24_Witness).
C24_RunWithoutConflictZeroesScore ==
    [][(/\ IsCall(last', DetectAll) /\ nOps' = nOps + 1
        /\ last'.fail = "none" /\ last'.arg \in AppIds
        /\ last'.created = <<>>)
       => /\ score'[last'.arg] = 0
          /\ status' = status]_vars

\* an application in status conflict, with an unresolved conflict and a
\* score above 0 no more, after a committed run that created nothing
C24_Witness ==
    /\ IsCall(last, DetectAll) /\ Committed(last) /\ last.created = <<>>
    /\ last.arg \in AppIds
    /\ status[last.arg] = "conflict" /\ score[last.arg] = 0
    /\ \E i \in 1..Len(conflicts) :
           /\ conflicts[i].application_id = last.arg
           /\ conflicts[i].status = "unresolved"
           /\ conflicts[i].confidence_score = HashMatchConfidence

\* C25: in every row of the synthesis, for every target parcel and every
\* draw, label = 1 exactly when nrc_match is 1 and exactly when
\* spatial_overlap is greater than 0; a conflicting scenario has the target's
\* ID and an overlap from 0.1 to 1.0, a clean one an ID other than the
\* target's and overlap 0.
C25_LabelIffIdMatchIffOverlap ==
    \A i \in 1..Len(data) :
        LET row == data[i] IN
        /\ (row.label = 1) <=> (row.nrc_match = 1)
        /\ (row.label = 1) <=> (row.spatial_overlap > 0)
        /\ row.label = 1 => /\ row.app_nrc = TrainParcels[row.target].owner_nrc
                            /\ row.spatial_overlap >= 10 /\ row.spatial_overlap <= 100
        /\ row.label = 0 => /\ row.app_nrc # TrainParcels[row.target].owner_nrc
                            /\ row.spatial_overlap = 0

\* the overlap half alone: label = 1 exactly when spatial_overlap is greater
\* than 0, and then it lies between 0.1 and 1.0
C25_LabelIffOverlap ==
    \A i \in 1..Len(data) :
        /\ (data[i].label = 1) <=> (data[i].spatial_overlap > 0)
        /\ data[i].label = 1 => data[i].spatial_overlap \in 10..100

\* C26: a run for an application that has a national-ID and no tax-ID
\* matches other applications on the national-ID only: every
\* identity_duplicate conflict it builds against an application is against
\* one with that national-ID.
C26_NoTpinMatchesOnNrcOnly ==
    (/\ IsCall(last, DetectAll) /\ last.arg \in AppIds
     /\ nrc_number[last.arg] # NULL /\ tpin_number[last.arg] = NULL)
    => \A i \in 1..Len(last.created) :
           LET c == last.created[i] IN
           (c.conflict_type = "identity_duplicate" /\ c.cp.app # 0)
           => nrc_number[c.cp.app] = nrc_number[last.arg]

\* the applications the identity query of a run for application a returns
IdentityMatches(a) == {d \in AppIds : IdentityDupsFilter(a, d)}

\* C27: when none of the applications the identity query returns has an
\* identity conflict with the application being checked, the run builds one
\* identity_duplicate conflict for each of them and no other: no counterpart
\* is passed over because its reference number occurs in the description
\* written for another.
C27_OneIdentityConflictPerMatch ==
    (/\ IsCall(last, DetectAll) /\ last.fail = "none" /\ last.arg \in AppIds
     /\ nrc_number[last.arg] # NULL
     /\ \A j \in 1..Len(conflicts) :
            ~(/\ conflicts[j].application_id = last.arg
              /\ conflicts[j].conflict_type = "identity_duplicate"))
    => /\ \A d \in IdentityMatches(last.arg) :
              \E i \in 1..Len(last.created) :
                  /\ last.created[i].conflict_type = "identity_duplicate"
                  /\ last.created[i].cp.app = d
       /\ Cardinality({i \in 1..Len(last.created) :
                          last.created[i].conflict_type = "identity_duplicate"})
              = Cardinality(IdentityMatches(last.arg))

\* C28: the existence check does not look at the status of a conflict: a
\* detect_all_duplicates run builds no conflict for an (application, type,
\* counterpart) that has a resolved conflict, and the resolved conflict
\* stays resolved.
C28_ResolvedStillSuppresses ==
    [][(IsCall(last', DetectAll) /\ nOps' = nOps + 1)
       => \A j \in 1..Len(conflicts) :
              (conflicts[j].status = "resolved"
               /\ conflicts[j].application_id = last'.arg)
              => /\ conflicts'[j] = conflicts[j]
                 /\ \A i \in 1..Len(last'.created) :
                        Triple(last'.created[i]) # Triple(conflicts[j])]_vars

\* a committed run for an application whose conflict, built by an earlier
\* run and resolved since, is for a match the run met again
C28_Witness ==
    /\ IsCall(last, DetectAll) /\ last.fail = "none" /\ Committed(last)
    /\ \E j \in 1..Len(conflicts) :
           /\ conflicts[j].application_id = last.arg
           /\ conflicts[j].by = "detect_all_duplicates"
           /\ conflicts[j].status = "resolved"
           /\ conflicts[j].resolved_at < nOps
           /\ conflicts[j].resolved_at > conflicts[j].at

\* the (application, type, counterpart) of the conflicts of a list
Triples(cs) == {Triple(cs[i]) : i \in 1..Len(cs)}

====
